---- MODULE Spec2Model ----
(***************************************************************************)
(* Model of scirpt.py: the compliance report generator.                    *)
(*                                                                         *)
(* Serial numbers are sequences of one-character strings, so that          *)
(* str.strip() and str.upper() are computed character by character.        *)
(* Every other field value is an opaque string.  Field values are always   *)
(* strings, as the dataclasses declare them.                               *)
(*                                                                         *)
(* Two specifications are given:                                           *)
(*   Spec        the whole script: existence check, the two loads, the     *)
(*               report and the archive step, over a small file system;    *)
(*   SpecReport  generate_report applied (repeatedly) to record lists      *)
(*               drawn from a bounded set.                                 *)
(***************************************************************************)
EXTENDS Integers, Sequences, FiniteSets, TLC

VARIABLES
    cwd,                \* names of the files present in the working directory
    csv,                \* content of each input file: [header, rows]
    reports,            \* content of every report file written, by name
    dirs,               \* names of the existing dated folders
    archived,           \* <<folder, file>> pairs: files inside dated folders
    NonComplianceList,  \* DataManager.NonComplianceList
    AssetData,          \* DataManager.AssetData
    current_report,     \* the name returned by the last generate_report
    out,                \* what was printed, in order
    pc,                 \* position of the script
    today               \* the day datetime.now() falls on (day of the month)

vars == <<cwd, csv, reports, dirs, archived, NonComplianceList, AssetData,
          current_report, out, pc, today>>

---------------------------------------------------------------------------
(* Bounds *)

MaxRows == 2

MaxRecords == 3

MaxDay == 1

MaxCalls == 2

---------------------------------------------------------------------------
(* Strings *)

Whitespace == {" "}

upperChar(c) ==
    CASE c = "a" -> "A"
      [] c = "b" -> "B"
      [] c = "c" -> "C"
      [] c = "n" -> "N"
      [] OTHER   -> c

upper(s) == [i \in 1..Len(s) |-> upperChar(s[i])]

RECURSIVE lstrip(_)
lstrip(s) ==
    IF s # <<>> /\ Head(s) \in Whitespace THEN lstrip(Tail(s)) ELSE s

RECURSIVE rstrip(_)
rstrip(s) ==
    IF s # <<>> /\ s[Len(s)] \in Whitespace
    THEN rstrip(SubSeq(s, 1, Len(s) - 1))
    ELSE s

\* A plausible slip: every space is removed, interior ones included.
strip_all_spaces(s) == SelectSeq(s, LAMBDA c : c \notin Whitespace)

strip(s) == rstrip(lstrip(s))

\* Serial numbers used as cell values.
SN_EMPTY   == <<>>
SN_BLANK   == <<" ">>
SN_ABC123  == <<"A", "B", "C", "1", "2", "3">>
SN_abc123p == <<" ", "a", "b", "c", "1", "2", "3", " ">>
SN_abc_123 == <<"a", "b", "c", " ", "1", "2", "3">>
SN_na      == <<"n", "/", "a">>
SN_NA      == <<"N", "/", "A">>

\* Cell values of the input files of Spec, and of the lists of SpecReport.
FileSerials   == {SN_EMPTY, SN_BLANK, SN_na}
ReportSerials == {SN_EMPTY, SN_BLANK, SN_ABC123, SN_abc123p, SN_abc_123}

SeqsUpTo(S, n) == UNION {[1..k -> S] : k \in 0..n}

---------------------------------------------------------------------------
(* The two record types *)

NC_CSV    == "noncompliance.csv"
ASSET_CSV == "assets.csv"

AssetFields ==
    {"name", "quantity", "serial_number", "location", "comments",
     "manufacturer", "supplier", "asset_type", "assigned_to", "company",
     "mac_wired", "mac_wireless", "purchase_date", "warranty_expire",
     "notes", "owner"}

NonComplianceFields ==
    {"DeviceName", "UPN", "ComplianceState", "ComplianceState_loc", "OS",
     "OS_loc", "OSVersion", "OwnerType", "OwnerType_loc", "LastContact",
     "ManagementAgents", "ManagementAgents_loc", "InGracePeriodUntil",
     "DeviceHealthThreatLevel", "DeviceHealthThreatLevel_loc", "UserEmail",
     "UserName", "IntuneDeviceId", "AadDeviceId", "UserId", "IMEI",
     "SerialNumber", "RetireAfterDatetime"}

\* The column each Asset field is read from (row.get's first argument).
AssetColumn(f) ==
    CASE f = "name"            -> "Name"
      [] f = "quantity"        -> "Quantity"
      [] f = "serial_number"   -> "SerialNumber"
      [] f = "location"        -> "Location"
      [] f = "comments"        -> "Comments"
      [] f = "manufacturer"    -> "Manufacturer"
      [] f = "supplier"        -> "Supplier"
      [] f = "asset_type"      -> "Type"
      [] f = "assigned_to"     -> "Assigned To"
      [] f = "company"         -> "Company"
      [] f = "mac_wired"       -> "MAC - Wired"
      [] f = "mac_wireless"    -> "MAC - Wireless"
      [] f = "purchase_date"   -> "Purchase Date"
      [] f = "warranty_expire" -> "Warranty Expire"
      [] f = "notes"           -> "Additional Notes"
      [] f = "owner"           -> "Owner"

\* The default of each Asset field (row.get's second argument).
AssetDefault(f) ==
    CASE f = "serial_number"         -> SN_NA
      [] f = "quantity"              -> "0"
      [] f \in {"comments", "notes"} -> ""
      [] OTHER                       -> "N/A"

AssetColumns == {AssetColumn(f) : f \in AssetFields}

---------------------------------------------------------------------------
(* Input files.  header is reader.fieldnames after the names were stripped *)
(* at line 67; rows holds, per data row, the SerialNumber cell.  The other *)
(* cells of a row are fixed by CellValue.                                  *)

AssetHeaders ==
    {AssetColumns,
     AssetColumns \ {"SerialNumber"},
     (AssetColumns \ {"Comments"}) \cup {"Unknown"}}

NonComplianceHeaders ==
    {NonComplianceFields,
     NonComplianceFields \cup {"Unknown"},
     NonComplianceFields \ {"SerialNumber"},
     (NonComplianceFields \ {"IMEI", "AadDeviceId"}) \cup {"Unknown"}}

Headers(file_path) ==
    IF file_path = NC_CSV THEN NonComplianceHeaders ELSE AssetHeaders

RowsOf(header, serials) ==
    IF "SerialNumber" \in header
    THEN SeqsUpTo(serials, MaxRows)
    ELSE {[i \in 1..k |-> SN_EMPTY] : k \in 0..MaxRows}

Files(file_path) ==
    UNION {{[header |-> h, rows |-> r] : r \in RowsOf(h, FileSerials)} :
              h \in Headers(file_path)}

NoContent == [header |-> {}, rows |-> <<>>]

CellValue(file_path, column, i, cell) ==
    CASE column = "SerialNumber" -> cell
      [] column = "Name"         -> "Laptop" \o ToString(i)
      [] column = "DeviceName"   -> "Dev" \o ToString(i)
      [] column = "Assigned To"  -> "Owner" \o ToString(i)
      [] column = "UserName"     -> "User" \o ToString(i)
      [] OTHER                   -> "text"

\* The dict csv.DictReader yields for data row i.
DictRow(file_path, file, i) ==
    [c \in file.header |-> CellValue(file_path, c, i, file.rows[i])]

---------------------------------------------------------------------------
(* load_data *)

\* row.get(column, default)
get(row, column, default) ==
    IF column \in DOMAIN row THEN row[column] ELSE default

\* Asset(name=row.get('Name', 'N/A'), ...)
AssetFromRow(row) ==
    [f \in AssetFields |-> get(row, AssetColumn(f), AssetDefault(f))]

\* filtered_row = {k: v for k, v in row.items() if k in valid_fields}
filtered_row(row) ==
    [k \in (DOMAIN row) \cap NonComplianceFields |-> row[k]]

\* NonComplianceData(**kw) raises TypeError unless every field is given:
\* the dataclass declares no default.
Constructible(kw) == DOMAIN kw = NonComplianceFields

\* The rows of the file that are turned into records before the loop ends:
\* all of them, or those before the first row that cannot be constructed.
LoadedRows(file_path, file) ==
    LET n   == Len(file.rows)
        bad == {i \in 1..n :
                  /\ file_path = NC_CSV
                  /\ ~Constructible(filtered_row(DictRow(file_path, file, i)))}
    IN  IF bad = {} THEN n
        ELSE (CHOOSE i \in bad : \A j \in bad : i <= j) - 1

LoadRaises(file_path, file) == LoadedRows(file_path, file) < Len(file.rows)

RecordOf(file_path, file, i) ==
    IF file_path = NC_CSV
    THEN filtered_row(DictRow(file_path, file, i))
    ELSE AssetFromRow(DictRow(file_path, file, i))

LoadedRecords(file_path, file) ==
    [i \in 1..LoadedRows(file_path, file) |-> RecordOf(file_path, file, i)]

\* The effect of load_data(file_path) on the two class-level lists.
load_data(file_path) ==
    /\ NonComplianceList' =
          IF file_path = NC_CSV
          THEN NonComplianceList \o LoadedRecords(file_path, csv[file_path])
          ELSE NonComplianceList
    /\ AssetData' =
          IF file_path = ASSET_CSV
          THEN AssetData \o LoadedRecords(file_path, csv[file_path])
          ELSE AssetData

---------------------------------------------------------------------------
(* Names, printed messages and report lines *)

\* datetime.now().strftime("%m%d%Y"), for a day of January 2026.
strftime(day) ==
    "01" \o (IF day < 10 THEN "0" ELSE "") \o ToString(day) \o "2026"

ReportName(timestamp) == "Compliance_Report" \o timestamp \o ".txt"

FolderName(timestamp) == "Report" \o timestamp

Msg(kind, names) == [kind |-> kind, names |-> names]

Line(kind, name, sn, user, n) ==
    [kind |-> kind, name |-> name, sn |-> sn, user |-> user, n |-> n]

Text(kind) == Line(kind, "", <<>>, "", 0)

---------------------------------------------------------------------------
(* generate_report *)

\* A plausible slip: the serials of the set are trimmed but not uppercased.
non_compliant_sns_case_sensitive(ncl) ==
    {strip(ncl[i].SerialNumber) :
        i \in {j \in 1..Len(ncl) : ncl[j].SerialNumber # <<>>}}

non_compliant_sns(ncl) ==
    {upper(strip(ncl[i].SerialNumber)) :
        i \in {j \in 1..Len(ncl) : ncl[j].SerialNumber # <<>>}}

asset_sns(assets) ==
    {upper(strip(assets[i].serial_number)) :
        i \in {j \in 1..Len(assets) : assets[j].serial_number # <<>>}}

\* A plausible slip: the title carries the date.
report_head_dated(timestamp) ==
    <<Line("TITLE", timestamp, <<>>, "", 0), Text("RULE"), Text("BLANK")>>

\* The first two writes; the date is not part of them.
report_head(timestamp) == <<Text("TITLE"), Text("RULE"), Text("BLANK")>>

RECURSIVE match_loop(_, _, _)
match_loop(assets, sns, acc) ==
    IF assets = <<>> THEN acc
    ELSE LET asset    == Head(assets)
             sn_clean == upper(strip(asset.serial_number))
         IN  match_loop(Tail(assets), sns,
                IF sn_clean \in sns
                THEN [lines |-> Append(acc.lines,
                                   Line("MATCH", asset.name,
                                        asset.serial_number,
                                        asset.assigned_to, 0)),
                      count |-> acc.count + 1]
                ELSE acc)

\* A plausible slip: the test for an empty serial is left out.
is_missing_unguarded(sn_clean, sns) == sn_clean \notin sns

\* if sn_clean and sn_clean not in asset_sns
is_missing(sn_clean, sns) == sn_clean # <<>> /\ sn_clean \notin sns

RECURSIVE missing_loop(_, _, _)
missing_loop(ncl, sns, acc) ==
    IF ncl = <<>> THEN acc
    ELSE LET device   == Head(ncl)
             sn_clean == upper(strip(device.SerialNumber))
         IN  missing_loop(Tail(ncl), sns,
                IF is_missing(sn_clean, sns)
                THEN [lines |-> Append(acc.lines,
                                   Line("MISSING", device.DeviceName,
                                        device.SerialNumber,
                                        device.UserName, 0)),
                      count |-> acc.count + 1]
                ELSE acc)

\* A plausible slip: both summary lines print the match count.
report_tail_one_counter(match_count, missing_count) ==
    <<Text("BLANK"), Text("RULE"),
      Line("TOTAL_MATCHES", "", <<>>, "", match_count),
      Line("TOTAL_MISSING", "", <<>>, "", match_count)>>

\* The last three writes.
report_tail(match_count, missing_count) ==
    <<Text("BLANK"), Text("RULE"),
      Line("TOTAL_MATCHES", "", <<>>, "", match_count),
      Line("TOTAL_MISSING", "", <<>>, "", missing_count)>>

\* What the with-block writes, line by line.
ReportContent(ncl, assets, timestamp) ==
    LET start   == [lines |-> <<>>, count |-> 0]
        matches == match_loop(assets, non_compliant_sns(ncl), start)
        missing == missing_loop(ncl, asset_sns(assets), start)
    IN  report_head(timestamp)
        \o <<Text("MATCH_HEADER")>> \o matches.lines
        \o <<Text("BLANK"), Text("MISSING_HEADER")>> \o missing.lines
        \o report_tail(matches.count, missing.count)

\* The effect of generate_report(); it returns report_name.
generate_report ==
    LET timestamp   == strftime(today)
        report_name == ReportName(timestamp)
        content     == ReportContent(NonComplianceList, AssetData, timestamp)
    IN  /\ reports' = [n \in (DOMAIN reports) \cup {report_name} |->
                          IF n = report_name THEN content ELSE reports[n]]
        /\ cwd' = cwd \cup {report_name}
        /\ out' = Append(out, Msg("Generated", <<report_name>>))
        /\ current_report' = report_name
        /\ UNCHANGED <<csv, dirs, archived, NonComplianceList, AssetData,
                       today>>

---------------------------------------------------------------------------
(* archive_file *)

RECURSIVE move_loop(_, _, _)
move_loop(files_to_move, folder_name, fs) ==
    IF files_to_move = <<>> THEN fs
    ELSE LET file == Head(files_to_move)
         IN  move_loop(Tail(files_to_move), folder_name,
                IF file \in fs.cwd
                THEN [cwd      |-> fs.cwd \ {file},
                      archived |-> fs.archived \cup {<<folder_name, file>>},
                      out      |-> Append(fs.out,
                                      Msg("Moved", <<file, folder_name>>))]
                ELSE [cwd      |-> fs.cwd,
                      archived |-> fs.archived,
                      out      |-> Append(fs.out, Msg("Warning", <<file>>))])

\* The effect of archive_file(report_name).
archive_file(report_name) ==
    LET folder_name == FolderName(strftime(today))
        printed     == IF folder_name \in dirs THEN out
                       ELSE Append(out, Msg("Created", <<folder_name>>))
        fs          == move_loop(<<ASSET_CSV, NC_CSV, report_name>>,
                                 folder_name,
                                 [cwd |-> cwd, archived |-> archived,
                                  out |-> printed])
    IN  /\ dirs' = dirs \cup {folder_name}
        /\ cwd' = fs.cwd
        /\ archived' = fs.archived
        /\ out' = fs.out
        /\ UNCHANGED <<csv, reports, NonComplianceList, AssetData,
                       current_report, today>>

---------------------------------------------------------------------------
(* The script *)

\* A plausible slip: the branch for one absent file is tested first.
MissingInputMessage_OneFirst(nc_exists, asset_exists) ==
    IF ~nc_exists THEN <<Msg("NotFound", <<NC_CSV>>)>>
    ELSE IF ~asset_exists THEN <<Msg("NotFound", <<ASSET_CSV>>)>>
    ELSE <<>>

\* The else branch of the script: which file names the message carries.
MissingInputMessage(nc_exists, asset_exists) ==
    IF ~nc_exists /\ ~asset_exists
    THEN <<Msg("NotFound", <<NC_CSV, ASSET_CSV>>)>>
    ELSE IF ~nc_exists THEN <<Msg("NotFound", <<NC_CSV>>)>>
    ELSE IF ~asset_exists THEN <<Msg("NotFound", <<ASSET_CSV>>)>>
    ELSE <<>>

CheckInputs ==
    /\ pc = "start"
    /\ IF NC_CSV \in cwd /\ ASSET_CSV \in cwd
       THEN /\ out' = Append(out, Msg("Processing", <<>>))
            /\ pc' = "load_noncompliance"
       ELSE /\ out' = out \o MissingInputMessage(NC_CSV \in cwd,
                                                 ASSET_CSV \in cwd)
            /\ pc' = "done"
    /\ UNCHANGED <<cwd, csv, reports, dirs, archived, NonComplianceList,
                   AssetData, current_report, today>>

LoadNonCompliance ==
    /\ pc = "load_noncompliance"
    /\ load_data(NC_CSV)
    /\ pc' = IF LoadRaises(NC_CSV, csv[NC_CSV]) THEN "crashed"
             ELSE "load_assets"
    /\ UNCHANGED <<cwd, csv, reports, dirs, archived, current_report, out,
                   today>>

LoadAssets ==
    /\ pc = "load_assets"
    /\ load_data(ASSET_CSV)
    /\ pc' = IF LoadRaises(ASSET_CSV, csv[ASSET_CSV]) THEN "crashed"
             ELSE "generate_report"
    /\ UNCHANGED <<cwd, csv, reports, dirs, archived, current_report, out,
                   today>>

GenerateReport ==
    /\ pc = "generate_report"
    /\ generate_report
    /\ pc' = "archive_file"

ArchiveFile ==
    /\ pc = "archive_file"
    /\ archive_file(current_report)
    /\ pc' = "done"

\* Midnight passes while the script runs.
Tick ==
    /\ pc \notin {"done", "crashed"}
    /\ today < 1 + MaxDay
    /\ today' = today + 1
    /\ UNCHANGED <<cwd, csv, reports, dirs, archived, NonComplianceList,
                   AssetData, current_report, out, pc>>

\* generate_report called on its own, on the lists as they are.
Reconcile ==
    /\ pc = "reconcile"
    /\ Len(out) < MaxCalls
    /\ generate_report
    /\ UNCHANGED pc

InputNames == {NC_CSV, ASSET_CSV}

NoReports == [n \in {} |-> <<>>]

Init ==
    /\ today = 1
    /\ cwd \in SUBSET InputNames
    /\ \E nc \in (IF NC_CSV \in cwd THEN Files(NC_CSV) ELSE {NoContent}),
          a \in (IF ASSET_CSV \in cwd THEN Files(ASSET_CSV) ELSE {NoContent}) :
            csv = [f \in InputNames |-> IF f = NC_CSV THEN nc ELSE a]
    /\ reports = NoReports
    /\ dirs \in {{}, {FolderName(strftime(1))}}
    /\ archived = {}
    /\ NonComplianceList = <<>>
    /\ AssetData = <<>>
    /\ current_report = ""
    /\ out = <<>>
    /\ pc = "start"

Next ==
    \/ CheckInputs
    \/ LoadNonCompliance
    \/ LoadAssets
    \/ GenerateReport
    \/ ArchiveFile
    \/ Tick

Spec == Init /\ [][Next]_vars

\* Record lists as load_data builds them from files with every column.
DeviceLists(n) ==
    {LoadedRecords(NC_CSV, [header |-> NonComplianceFields, rows |-> r]) :
        r \in SeqsUpTo(ReportSerials, n)}

AssetLists(n) ==
    {LoadedRecords(ASSET_CSV, [header |-> AssetColumns, rows |-> r]) :
        r \in SeqsUpTo(ReportSerials, n)}

InitReport ==
    /\ today = 1
    /\ cwd = {}
    /\ csv = [f \in InputNames |-> NoContent]
    /\ reports = NoReports
    /\ dirs = {}
    /\ archived = {}
    /\ NonComplianceList \in DeviceLists(MaxRecords)
    /\ AssetData \in AssetLists(MaxRecords - Len(NonComplianceList))
    /\ current_report = ""
    /\ out = <<>>
    /\ pc = "reconcile"

NextReport ==
    \/ Reconcile
    \/ Tick

SpecReport == InitReport /\ [][NextReport]_vars

---------------------------------------------------------------------------
(* Vocabulary of the properties, stated without the operators of the code *)

\* s without its leading and trailing whitespace.
Trimmed(s) ==
    LET keep == {i \in 1..Len(s) : s[i] \notin Whitespace}
    IN  IF keep = {} THEN <<>>
        ELSE SubSeq(s, CHOOSE i \in keep : \A j \in keep : i <= j,
                       CHOOSE i \in keep : \A j \in keep : j <= i)

\* The join key: trimmed, then uppercased.
Canon(s) ==
    LET t == Trimmed(s) IN [i \in 1..Len(t) |-> upperChar(t[i])]

LinesOfKind(content, kind) == SelectSeq(content, LAMBDA l : l.kind = kind)

\* The elements of seq whose index is in keep, in the order of seq.
Pick(seq, keep) ==
    LET idx == SelectSeq([i \in 1..Len(seq) |-> i], LAMBDA i : i \in keep)
    IN  [k \in 1..Len(idx) |-> seq[idx[k]]]

ReportWritten == current_report # "" /\ current_report \in DOMAIN reports

\* Set A: the keys of the compliance records with a non-empty serial.
SetA ==
    {Canon(NonComplianceList[i].SerialNumber) :
        i \in {j \in 1..Len(NonComplianceList) :
                  NonComplianceList[j].SerialNumber # <<>>}}

\* Set B: the keys of the asset records with a non-empty serial.
SetB ==
    {Canon(AssetData[i].serial_number) :
        i \in {j \in 1..Len(AssetData) : AssetData[j].serial_number # <<>>}}

MatchLineOf(asset) ==
    Line("MATCH", asset.name, asset.serial_number, asset.assigned_to, 0)

MissingLineOf(device) ==
    Line("MISSING", device.DeviceName, device.SerialNumber, device.UserName, 0)

ExpectedMatches ==
    LET A    == SetA
        keep == {i \in 1..Len(AssetData) :
                    Canon(AssetData[i].serial_number) \in A}
        rows == Pick(AssetData, keep)
    IN  [k \in 1..Len(rows) |-> MatchLineOf(rows[k])]

ExpectedMissing ==
    LET B    == SetB
        keep == {i \in 1..Len(NonComplianceList) :
                    LET key == Canon(NonComplianceList[i].SerialNumber)
                    IN  key # <<>> /\ key \notin B}
        rows == Pick(NonComplianceList, keep)
    IN  [k \in 1..Len(rows) |-> MissingLineOf(rows[k])]

\* The scenario of one asset Laptop1/ABC123 and one device Dev1/"abc 123".
InteriorSpaceScenario ==
    /\ Len(AssetData) = 1
    /\ AssetData[1].name = "Laptop1"
    /\ AssetData[1].serial_number = SN_ABC123
    /\ Len(NonComplianceList) = 1
    /\ NonComplianceList[1].DeviceName = "Dev1"
    /\ NonComplianceList[1].SerialNumber = SN_abc_123
    /\ ReportWritten

TotalsAre(content, matches, missing) ==
    /\ Len(LinesOfKind(content, "TOTAL_MATCHES")) = 1
    /\ LinesOfKind(content, "TOTAL_MATCHES")[1].n = matches
    /\ Len(LinesOfKind(content, "TOTAL_MISSING")) = 1
    /\ LinesOfKind(content, "TOTAL_MISSING")[1].n = missing

\* The script took the processing branch: both inputs were there at start.
StartedWithBoth == out # <<>> /\ out[1].kind = "Processing"

---------------------------------------------------------------------------
(* C1 *)

\* C1: an asset record whose serial number is the empty string is never
\* written as a MATCH line, whatever serials the compliance records carry.
C1_EmptyAssetSerialNeverMatched ==
    \A n \in DOMAIN reports :
        \A i \in 1..Len(reports[n]) :
            reports[n][i].kind = "MATCH" => reports[n][i].sn # <<>>

---------------------------------------------------------------------------
(* C2 *)

\* C2: load_data never fails because of the column set of its file: both
\* loads complete and append one record per data row.
C2_LoadNeverFailsOnColumns ==
    /\ pc # "crashed"
    /\ pc \in {"load_assets", "generate_report", "archive_file"}
          => Len(NonComplianceList) = Len(csv[NC_CSV].rows)
    /\ pc \in {"generate_report", "archive_file"}
          => Len(AssetData) = Len(csv[ASSET_CSV].rows)

---------------------------------------------------------------------------
(* C3 *)

\* C3 as stated: in the Laptop1/ABC123, Dev1/"abc 123" scenario the report
\* holds exactly one MATCH line, for Laptop1, no MISSING line, and the
\* counts 1 and 0.
C3_InteriorSpaceMatches ==
    InteriorSpaceScenario =>
        LET content == reports[current_report]
        IN  /\ LinesOfKind(content, "MATCH") = <<MatchLineOf(AssetData[1])>>
            /\ LinesOfKind(content, "MISSING") = <<>>
            /\ TotalsAre(content, 1, 0)

\* C3 amended: in that scenario the interior space survives normalization,
\* so the report holds no MATCH line, exactly one MISSING line, for Dev1
\* with its original serial, and the counts 0 and 1.
C3_InteriorSpaceKeepsSerialsApart ==
    InteriorSpaceScenario =>
        LET content == reports[current_report]
        IN  /\ LinesOfKind(content, "MATCH") = <<>>
            /\ LinesOfKind(content, "MISSING") =
                  <<Line("MISSING", "Dev1", SN_abc_123, "User1", 0)>>
            /\ TotalsAre(content, 0, 1)

C3_Witness ==
    /\ InteriorSpaceScenario
    /\ Len(LinesOfKind(reports[current_report], "MISSING")) = 1

---------------------------------------------------------------------------
(* C4 *)

\* C4: an asset loaded from a file without a SerialNumber column is never
\* reported matched, whatever the compliance serials are.
C4_AssetWithoutSerialColumnNeverMatched ==
    "SerialNumber" \notin csv[ASSET_CSV].header
        => \A n \in DOMAIN reports : LinesOfKind(reports[n], "MATCH") = <<>>

---------------------------------------------------------------------------
(* C5 *)

\* C5: when an input file is absent at start, the script prints one message
\* naming exactly the absent files and ends: nothing is loaded, no report is
\* written, no folder is created, no file is moved, and nothing follows.
C5_MissingInputSkipsRun ==
    [][ /\ (pc = "start" /\ ~(NC_CSV \in cwd /\ ASSET_CSV \in cwd)) =>
            /\ UNCHANGED <<cwd, csv, reports, dirs, archived,
                           NonComplianceList, AssetData, current_report>>
            /\ \/ pc' = "start" /\ out' = out
               \/ /\ pc' = "done"
                  /\ out' = out \o
                        <<Msg("NotFound",
                              SelectSeq(<<NC_CSV, ASSET_CSV>>,
                                        LAMBDA f : f \notin cwd))>>
        /\ pc = "done" => UNCHANGED vars
      ]_vars

C5_Witness ==
    /\ pc = "done"
    /\ cwd = {}
    /\ out = <<Msg("NotFound", <<NC_CSV, ASSET_CSV>>)>>
    /\ reports = NoReports
    /\ archived = {}

---------------------------------------------------------------------------
(* C6 *)

\* C6: in the report a call writes, the two summary numbers equal the
\* numbers of MATCH and MISSING lines written, and every call leaves a
\* report behind, with counts 0 and 0 when both lists are empty.
C6_CountsEqualLines ==
    /\ ReportWritten =>
          TotalsAre(reports[current_report],
                    Len(LinesOfKind(reports[current_report], "MATCH")),
                    Len(LinesOfKind(reports[current_report], "MISSING")))
    /\ out # <<>> => ReportWritten /\ current_report \in cwd
    /\ (out # <<>> /\ AssetData = <<>> /\ NonComplianceList = <<>>)
          => TotalsAre(reports[current_report], 0, 0)

C6_Witness ==
    /\ ReportWritten
    /\ Len(LinesOfKind(reports[current_report], "MATCH")) = 2
    /\ Len(LinesOfKind(reports[current_report], "MISSING")) = 0
    /\ TotalsAre(reports[current_report], 2, 0)

---------------------------------------------------------------------------
(* C7 *)

\* C7: the MISSING lines of the report a call writes are exactly the
\* compliance records whose key is non-empty and not in set B, one line
\* each, in the order of the compliance records, showing the original
\* serial.
C7_MissingIffKeyNotInB ==
    ReportWritten =>
        LinesOfKind(reports[current_report], "MISSING") = ExpectedMissing

C7_Witness ==
    /\ ReportWritten
    /\ Len(NonComplianceList) = 2
    /\ NonComplianceList[1].SerialNumber = SN_BLANK
    /\ NonComplianceList[2].SerialNumber = SN_abc123p
    /\ LinesOfKind(reports[current_report], "MISSING") =
          <<Line("MISSING", "Dev2", SN_abc123p, "User2", 0)>>

---------------------------------------------------------------------------
(* C8 *)

\* C8: the MATCH lines of the report a call writes are exactly the asset
\* records whose key is in set A, one line per asset row, duplicates
\* included, in the order of the asset records.
C8_MatchIffKeyInA ==
    ReportWritten =>
        LinesOfKind(reports[current_report], "MATCH") = ExpectedMatches

C8_Witness ==
    /\ ReportWritten
    /\ Len(NonComplianceList) = 1
    /\ NonComplianceList[1].SerialNumber = SN_abc123p
    /\ LinesOfKind(reports[current_report], "MATCH") =
          <<Line("MATCH", "Laptop1", SN_ABC123, "Owner1", 0),
            Line("MATCH", "Laptop2", SN_ABC123, "Owner2", 0)>>

---------------------------------------------------------------------------
(* C9 *)

\* C9: after a run that started with both input files present, the dated
\* folder holds the two input files and the report, and the working
\* directory holds none of them.
C9_RunArchivesAllThree ==
    (pc \in {"done", "crashed"} /\ StartedWithBoth) =>
        /\ current_report # ""
        /\ \E folder \in dirs :
              \A f \in {ASSET_CSV, NC_CSV, current_report} :
                  <<folder, f>> \in archived
        /\ cwd \cap {ASSET_CSV, NC_CSV, current_report} = {}

---------------------------------------------------------------------------
(* C10 *)

\* C10: a call of generate_report that follows an earlier one on the same
\* lists writes the content the earlier one wrote, and no call changes
\* either list.
C10_RepeatedReportIdentical ==
    [][ /\ NonComplianceList' = NonComplianceList
        /\ AssetData' = AssetData
        /\ (ReportWritten /\ out' # out) =>
              reports'[current_report'] = reports[current_report]
      ]_vars

C10_Witness ==
    /\ Len(out) = 2
    /\ Cardinality(DOMAIN reports) = 2
    /\ Len(LinesOfKind(reports[current_report], "MATCH")) = 1
    /\ Len(LinesOfKind(reports[current_report], "MISSING")) = 1

====
